---------------------------- MODULE Spec2Model ----------------------------
(***************************************************************************)
(* A model of the math expression parser and evaluator                     *)
(* (src/src/lib.rs, src/src/main.rs): the AST builder build_expr, the      *)
(* recursive evaluator eval with its numeric domain checks, the            *)
(* convenience function parse_and_eval that appends to res.txt, and the    *)
(* batch loop of main.                                                     *)
(*                                                                         *)
(* f64 is modelled as a small binary fixed-point format that keeps the     *)
(* IEEE-754 structure the evaluator depends on: finite values are          *)
(* multiples of 1/2 with magnitude at most GridMax, anything larger        *)
(* overflows to +inf or -inf, results are rounded to the nearest           *)
(* representable value (ties to even), and NaN is unordered and unequal    *)
(* to everything.  The sign of zero is not modelled (-0.0 == 0.0 in Rust,  *)
(* so no comparison of the evaluator tells the two apart).                 *)
(***************************************************************************)
EXTENDS Integers, Sequences, FiniteSets, TLC

\* Largest finite magnitude of the modelled f64 (values beyond it overflow).
GridMax == 8
\* Numeric literals of the enumerated expressions are the integers -1 .. MaxLit.
MaxLit == 2

---------------------------------------------------------------------------
(* f64 values.  A finite value n/2 is Fin(n).                              *)
Fin(n) == [k |-> "fin", n |-> n]
NaN == [k |-> "nan", n |-> 0]
PosInf == [k |-> "inf", n |-> 1]
NegInf == [k |-> "inf", n |-> -1]
Zero == Fin(0)
One == Fin(2)

F64 == {Fin(n) : n \in (0 - 2 * GridMax) .. (2 * GridMax)} \cup {NaN, PosInf, NegInf}

\* The finite value of n halves, or the infinity it overflows to.
Saturate(n) ==
  IF n > 2 * GridMax THEN PosInf
  ELSE IF n < 0 - 2 * GridMax THEN NegInf
  ELSE Fin(n)

\* p / q for q > 0, rounded to the nearest integer, ties to even.
RoundDiv(p, q) ==
  LET f == p \div q
      r == p % q
  IN  IF 2 * r < q THEN f
      ELSE IF 2 * r > q THEN f + 1
      ELSE IF f % 2 = 0 THEN f ELSE f + 1

Sign(x) == IF x.n > 0 THEN 1 ELSE IF x.n < 0 THEN -1 ELSE 0
Inf(s) == IF s < 0 THEN NegInf ELSE PosInf

\* f64 ==, <= : false whenever an operand is NaN.
FEq(x, y) == x.k # "nan" /\ y.k # "nan" /\ x = y
FLe(x, y) ==
  /\ x.k # "nan" /\ y.k # "nan"
  /\ \/ x = y
     \/ x = NegInf
     \/ y = PosInf
     \/ x.k = "fin" /\ y.k = "fin" /\ x.n <= y.n

FNeg(x) == IF x.k = "nan" THEN NaN ELSE [k |-> x.k, n |-> 0 - x.n]

FAdd(x, y) ==
  IF x.k = "nan" \/ y.k = "nan" THEN NaN
  ELSE IF x.k = "inf" /\ y.k = "inf" THEN (IF x = y THEN x ELSE NaN)
  ELSE IF x.k = "inf" THEN x
  ELSE IF y.k = "inf" THEN y
  ELSE Saturate(x.n + y.n)

FSub(x, y) == FAdd(x, FNeg(y))

FMul(x, y) ==
  IF x.k = "nan" \/ y.k = "nan" THEN NaN
  ELSE IF x.k = "inf" \/ y.k = "inf"
       THEN (IF Sign(x) * Sign(y) = 0 THEN NaN ELSE Inf(Sign(x) * Sign(y)))
  ELSE Saturate(RoundDiv(x.n * y.n, 2))

\* IEEE division, the divisor zero included (x / 0 is an infinity, 0 / 0 is NaN).
FDiv(x, y) ==
  IF x.k = "nan" \/ y.k = "nan" THEN NaN
  ELSE IF x.k = "inf" /\ y.k = "inf" THEN NaN
  ELSE IF x.k = "inf" THEN Inf(IF Sign(y) = 0 THEN Sign(x) ELSE Sign(x) * Sign(y))
  ELSE IF y.k = "inf" THEN Zero
  ELSE IF y.n = 0 THEN (IF x.n = 0 THEN NaN ELSE Inf(Sign(x)))
  ELSE IF y.n > 0 THEN Saturate(RoundDiv(2 * x.n, y.n))
  ELSE Saturate(RoundDiv(0 - 2 * x.n, 0 - y.n))

(* The transcendental functions are tables of the IEEE results rounded to  *)
(* halves.  Entry i of a table is for the argument (i - 19)/2 when         *)
(* i <= 37, and for NaN, +inf and -inf when i is 38, 39 and 40.  An entry  *)
(* is a number of halves, 77 for NaN, and 99 or -99 for a result beyond    *)
(* the tables' range.                                                      *)
Idx(x) ==
  IF x.k = "fin" THEN x.n + 19
  ELSE IF x.k = "nan" THEN 38
  ELSE IF x.n > 0 THEN 39 ELSE 40

Dec(c) == IF c = 77 THEN NaN ELSE Saturate(c)

SinTab ==
  << -1, -2, -2, -2, -1, 0, 1, 1, 2, 2,
     2, 1, 0, -1, -2, -2, -2, -1, 0, 1,
     2, 2, 2, 1, 0, -1, -2, -2, -2, -1,
     -1, 0, 1, 2, 2, 2, 1, 77, 77, 77 >>

CosTab ==
  << -2, -1, 0, 1, 2, 2, 2, 1, 1, 0,
     -1, -2, -2, -2, -1, 0, 1, 2, 2, 2,
     1, 0, -1, -2, -2, -2, -1, 0, 1, 1,
     2, 2, 2, 1, 0, -1, -2, 77, 77, 77 >>

TanTab ==
  << 1, 3, 14, -5, -2, 0, 1, 2, 7, -9,
     -2, -1, 0, 1, 4, -99, -3, -1, 0, 1,
     3, 99, -4, -1, 0, 1, 2, 9, -7, -2,
     -1, 0, 2, 5, -14, -3, -1, 77, 77, 77 >>

ExpTab ==
  << 0, 0, 0, 0, 0, 0, 0, 0, 0, 0,
     0, 0, 0, 0, 0, 0, 1, 1, 2, 3,
     5, 9, 15, 99, 99, 99, 99, 99, 99, 99,
     99, 99, 99, 99, 99, 99, 99, 77, 99, 0 >>

LnTab ==
  << 77, 77, 77, 77, 77, 77, 77, 77, 77, 77,
     77, 77, 77, 77, 77, 77, 77, 77, -99, -1,
     0, 1, 1, 2, 2, 3, 3, 3, 3, 3,
     4, 4, 4, 4, 4, 4, 4, 77, 99, 77 >>

PowTab ==
  << <<0, 77, 0, 77, 0, 77, 0, 77, 0, 77, 0, 77, 0, 77, 0, 77, 0, 77, 2, 77, -18, 77, 99, 77, -99, 77, 99, 77, -99, 77, 99, 77, -99, 77, 99, 77, -99, 77, 99, 0>>,
     <<0, 77, 0, 77, 0, 77, 0, 77, 0, 77, 0, 77, 0, 77, 0, 77, 0, 77, 2, 77, -17, 77, 99, 77, -99, 77, 99, 77, -99, 77, 99, 77, -99, 77, 99, 77, -99, 77, 99, 0>>,
     <<0, 77, 0, 77, 0, 77, 0, 77, 0, 77, 0, 77, 0, 77, 0, 77, 0, 77, 2, 77, -16, 77, 99, 77, -99, 77, 99, 77, -99, 77, 99, 77, -99, 77, 99, 77, -99, 77, 99, 0>>,
     <<0, 77, 0, 77, 0, 77, 0, 77, 0, 77, 0, 77, 0, 77, 0, 77, 0, 77, 2, 77, -15, 77, 99, 77, -99, 77, 99, 77, -99, 77, 99, 77, -99, 77, 99, 77, -99, 77, 99, 0>>,
     <<0, 77, 0, 77, 0, 77, 0, 77, 0, 77, 0, 77, 0, 77, 0, 77, 0, 77, 2, 77, -14, 77, 99, 77, -99, 77, 99, 77, -99, 77, 99, 77, -99, 77, 99, 77, -99, 77, 99, 0>>,
     <<0, 77, 0, 77, 0, 77, 0, 77, 0, 77, 0, 77, 0, 77, 0, 77, 0, 77, 2, 77, -13, 77, 99, 77, -99, 77, 99, 77, -99, 77, 99, 77, -99, 77, 99, 77, -99, 77, 99, 0>>,
     <<0, 77, 0, 77, 0, 77, 0, 77, 0, 77, 0, 77, 0, 77, 0, 77, 0, 77, 2, 77, -12, 77, 99, 77, -99, 77, 99, 77, -99, 77, 99, 77, -99, 77, 99, 77, -99, 77, 99, 0>>,
     <<0, 77, 0, 77, 0, 77, 0, 77, 0, 77, 0, 77, 0, 77, 0, 77, 0, 77, 2, 77, -11, 77, 99, 77, -99, 77, 99, 77, -99, 77, 99, 77, -99, 77, 99, 77, -99, 77, 99, 0>>,
     <<0, 77, 0, 77, 0, 77, 0, 77, 0, 77, 0, 77, 0, 77, 0, 77, 0, 77, 2, 77, -10, 77, 99, 77, -99, 77, 99, 77, -99, 77, 99, 77, -99, 77, 99, 77, -99, 77, 99, 0>>,
     <<0, 77, 0, 77, 0, 77, 0, 77, 0, 77, 0, 77, 0, 77, 0, 77, 0, 77, 2, 77, -9, 77, 99, 77, -99, 77, 99, 77, -99, 77, 99, 77, -99, 77, 99, 77, -99, 77, 99, 0>>,
     <<0, 77, 0, 77, 0, 77, 0, 77, 0, 77, 0, 77, 0, 77, 0, 77, 0, 77, 2, 77, -8, 77, 99, 77, -99, 77, 99, 77, -99, 77, 99, 77, -99, 77, 99, 77, -99, 77, 99, 0>>,
     <<0, 77, 0, 77, 0, 77, 0, 77, 0, 77, 0, 77, 0, 77, 0, 77, -1, 77, 2, 77, -7, 77, 99, 77, -99, 77, 99, 77, -99, 77, 99, 77, -99, 77, 99, 77, -99, 77, 99, 0>>,
     <<0, 77, 0, 77, 0, 77, 0, 77, 0, 77, 0, 77, 0, 77, 0, 77, -1, 77, 2, 77, -6, 77, 18, 77, -99, 77, 99, 77, -99, 77, 99, 77, -99, 77, 99, 77, -99, 77, 99, 0>>,
     <<0, 77, 0, 77, 0, 77, 0, 77, 0, 77, 0, 77, 0, 77, 0, 77, -1, 77, 2, 77, -5, 77, 12, 77, -99, 77, 99, 77, -99, 77, 99, 77, -99, 77, 99, 77, -99, 77, 99, 0>>,
     <<0, 77, 0, 77, 0, 77, 0, 77, 0, 77, 0, 77, 0, 77, 0, 77, -1, 77, 2, 77, -4, 77, 8, 77, -16, 77, 99, 77, -99, 77, 99, 77, -99, 77, 99, 77, -99, 77, 99, 0>>,
     <<0, 77, 0, 77, 0, 77, 0, 77, 0, 77, 0, 77, -1, 77, 1, 77, -1, 77, 2, 77, -3, 77, 4, 77, -7, 77, 10, 77, -15, 77, 99, 77, -99, 77, 99, 77, -99, 77, 99, 0>>,
     <<-2, 77, 2, 77, -2, 77, 2, 77, -2, 77, 2, 77, -2, 77, 2, 77, -2, 77, 2, 77, -2, 77, 2, 77, -2, 77, 2, 77, -2, 77, 2, 77, -2, 77, 2, 77, -2, 77, 2, 2>>,
     <<-99, 77, 99, 77, -99, 77, 99, 77, -99, 77, 99, 77, -16, 77, 8, 77, -4, 77, 2, 77, -1, 77, 0, 77, 0, 77, 0, 77, 0, 77, 0, 77, 0, 77, 0, 77, 0, 77, 0, 99>>,
     <<99, 99, 99, 99, 99, 99, 99, 99, 99, 99, 99, 99, 99, 99, 99, 99, 99, 99, 2, 0, 0, 0, 0, 0, 0, 0, 0, 0, 0, 0, 0, 0, 0, 0, 0, 0, 0, 77, 0, 99>>,
     <<99, 99, 99, 99, 99, 99, 99, 99, 99, 99, 99, 99, 16, 11, 8, 6, 4, 3, 2, 1, 1, 1, 0, 0, 0, 0, 0, 0, 0, 0, 0, 0, 0, 0, 0, 0, 0, 77, 0, 99>>,
     <<2, 2, 2, 2, 2, 2, 2, 2, 2, 2, 2, 2, 2, 2, 2, 2, 2, 2, 2, 2, 2, 2, 2, 2, 2, 2, 2, 2, 2, 2, 2, 2, 2, 2, 2, 2, 2, 2, 2, 2>>,
     <<0, 0, 0, 0, 0, 0, 0, 0, 0, 0, 0, 0, 1, 1, 1, 1, 1, 2, 2, 2, 3, 4, 4, 6, 7, 8, 10, 12, 15, 99, 99, 99, 99, 99, 99, 99, 99, 77, 99, 0>>,
     <<0, 0, 0, 0, 0, 0, 0, 0, 0, 0, 0, 0, 0, 0, 0, 1, 1, 1, 2, 3, 4, 6, 8, 11, 16, 99, 99, 99, 99, 99, 99, 99, 99, 99, 99, 99, 99, 77, 99, 0>>,
     <<0, 0, 0, 0, 0, 0, 0, 0, 0, 0, 0, 0, 0, 0, 0, 1, 1, 1, 2, 3, 5, 8, 12, 99, 99, 99, 99, 99, 99, 99, 99, 99, 99, 99, 99, 99, 99, 77, 99, 0>>,
     <<0, 0, 0, 0, 0, 0, 0, 0, 0, 0, 0, 0, 0, 0, 0, 0, 1, 1, 2, 3, 6, 10, 18, 99, 99, 99, 99, 99, 99, 99, 99, 99, 99, 99, 99, 99, 99, 77, 99, 0>>,
     <<0, 0, 0, 0, 0, 0, 0, 0, 0, 0, 0, 0, 0, 0, 0, 0, 1, 1, 2, 4, 7, 13, 99, 99, 99, 99, 99, 99, 99, 99, 99, 99, 99, 99, 99, 99, 99, 77, 99, 0>>,
     <<0, 0, 0, 0, 0, 0, 0, 0, 0, 0, 0, 0, 0, 0, 0, 0, 0, 1, 2, 4, 8, 16, 99, 99, 99, 99, 99, 99, 99, 99, 99, 99, 99, 99, 99, 99, 99, 77, 99, 0>>,
     <<0, 0, 0, 0, 0, 0, 0, 0, 0, 0, 0, 0, 0, 0, 0, 0, 0, 1, 2, 4, 9, 99, 99, 99, 99, 99, 99, 99, 99, 99, 99, 99, 99, 99, 99, 99, 99, 77, 99, 0>>,
     <<0, 0, 0, 0, 0, 0, 0, 0, 0, 0, 0, 0, 0, 0, 0, 0, 0, 1, 2, 4, 10, 99, 99, 99, 99, 99, 99, 99, 99, 99, 99, 99, 99, 99, 99, 99, 99, 77, 99, 0>>,
     <<0, 0, 0, 0, 0, 0, 0, 0, 0, 0, 0, 0, 0, 0, 0, 0, 0, 1, 2, 5, 11, 99, 99, 99, 99, 99, 99, 99, 99, 99, 99, 99, 99, 99, 99, 99, 99, 77, 99, 0>>,
     <<0, 0, 0, 0, 0, 0, 0, 0, 0, 0, 0, 0, 0, 0, 0, 0, 0, 1, 2, 5, 12, 99, 99, 99, 99, 99, 99, 99, 99, 99, 99, 99, 99, 99, 99, 99, 99, 77, 99, 0>>,
     <<0, 0, 0, 0, 0, 0, 0, 0, 0, 0, 0, 0, 0, 0, 0, 0, 0, 1, 2, 5, 13, 99, 99, 99, 99, 99, 99, 99, 99, 99, 99, 99, 99, 99, 99, 99, 99, 77, 99, 0>>,
     <<0, 0, 0, 0, 0, 0, 0, 0, 0, 0, 0, 0, 0, 0, 0, 0, 0, 1, 2, 5, 14, 99, 99, 99, 99, 99, 99, 99, 99, 99, 99, 99, 99, 99, 99, 99, 99, 77, 99, 0>>,
     <<0, 0, 0, 0, 0, 0, 0, 0, 0, 0, 0, 0, 0, 0, 0, 0, 0, 1, 2, 5, 15, 99, 99, 99, 99, 99, 99, 99, 99, 99, 99, 99, 99, 99, 99, 99, 99, 77, 99, 0>>,
     <<0, 0, 0, 0, 0, 0, 0, 0, 0, 0, 0, 0, 0, 0, 0, 0, 0, 1, 2, 6, 16, 99, 99, 99, 99, 99, 99, 99, 99, 99, 99, 99, 99, 99, 99, 99, 99, 77, 99, 0>>,
     <<0, 0, 0, 0, 0, 0, 0, 0, 0, 0, 0, 0, 0, 0, 0, 0, 0, 1, 2, 6, 17, 99, 99, 99, 99, 99, 99, 99, 99, 99, 99, 99, 99, 99, 99, 99, 99, 77, 99, 0>>,
     <<0, 0, 0, 0, 0, 0, 0, 0, 0, 0, 0, 0, 0, 0, 0, 0, 0, 1, 2, 6, 18, 99, 99, 99, 99, 99, 99, 99, 99, 99, 99, 99, 99, 99, 99, 99, 99, 77, 99, 0>>,
     <<77, 77, 77, 77, 77, 77, 77, 77, 77, 77, 77, 77, 77, 77, 77, 77, 77, 77, 2, 77, 77, 77, 77, 77, 77, 77, 77, 77, 77, 77, 77, 77, 77, 77, 77, 77, 77, 77, 77, 77>>,
     <<0, 0, 0, 0, 0, 0, 0, 0, 0, 0, 0, 0, 0, 0, 0, 0, 0, 0, 2, 99, 99, 99, 99, 99, 99, 99, 99, 99, 99, 99, 99, 99, 99, 99, 99, 99, 99, 77, 99, 0>>,
     <<0, 0, 0, 0, 0, 0, 0, 0, 0, 0, 0, 0, 0, 0, 0, 0, 0, 0, 2, 99, -99, 99, 99, 99, -99, 99, 99, 99, -99, 99, 99, 99, -99, 99, 99, 99, -99, 77, 99, 0>> >>

FSin(x) == Dec(SinTab[Idx(x)])
FCos(x) == Dec(CosTab[Idx(x)])
FTan(x) == Dec(TanTab[Idx(x)])
FExp(x) == Dec(ExpTab[Idx(x)])
FLn(x) == Dec(LnTab[Idx(x)])
FPowf(x, y) == Dec(PowTab[Idx(x)][Idx(y)])

---------------------------------------------------------------------------
(* The expression tree Expr.                                               *)
Num(v) == [op |-> "Num", n |-> v]
Un(o, x) == [op |-> o, x |-> x]
Bin(o, a, b) == [op |-> o, a |-> a, b |-> b]

UnaryOps == {"Sin", "Cos", "Tan", "Exp", "Ln"}
BinaryOps == {"Add", "Sub", "Mul", "Div", "Pow", "Root", "Log"}
ArithOps == {"Add", "Sub", "Mul", "Pow"}

\* The children of a node, in field order.
Kids(e) ==
  IF e.op = "Num" THEN <<>>
  ELSE IF e.op \in UnaryOps THEN <<e.x>>
  ELSE <<e.a, e.b>>

(* anyhow::Result<f64>.  An error is its message with the values that    *)
(* anyhow! formats into it.                                                *)
Ok(v) == [ok |-> TRUE, val |-> v]
Err(m, a) == [ok |-> FALSE, msg |-> m, args |-> a]

DivisionByZero == Err("Division by zero", <<>>)
RootDegreeZero == Err("Root degree cannot be zero", <<>>)
\* The ln error without the value of its argument.
InvalidLnNoValue(v) == Err("Invalid argument for ln: {}", <<>>)
InvalidLn(v) == Err("Invalid argument for ln: {}", <<v>>)
InvalidLog(v, b) ==
  Err("Invalid arguments for log(value, base): value={} base={}", <<v, b>>)

(* eval(e, p) is the outcome of the call eval(e) for the node at path p    *)
(* of the tree being evaluated (a path is the sequence of child indices    *)
(* from the root): res is the value returned, calls the paths of the       *)
(* nodes eval was called on, in call order.                                *)
Ret(res, calls) == [res |-> res, calls |-> calls]

RECURSIVE eval(_, _)

Arith(o, x, y) ==
  CASE o = "Add" -> FAdd(x, y)
    [] o = "Sub" -> FSub(x, y)
    [] o = "Mul" -> FMul(x, y)
    [] o = "Pow" -> FPowf(x, y)

\* Ok(eval(a)? + eval(b)?) and its like: the right operand first.
EvalArithRightFirst(o, a, b, p) ==
  LET rb == eval(b, p \o <<2>>)
      ra == eval(a, p \o <<1>>)
  IN  IF ~rb.res.ok THEN Ret(rb.res, rb.calls)
      ELSE IF ~ra.res.ok THEN Ret(ra.res, rb.calls \o ra.calls)
      ELSE Ret(Ok(Arith(o, ra.res.val, rb.res.val)), rb.calls \o ra.calls)

\* Add, Sub, Mul, Pow: Ok(eval(a)? + eval(b)?), Ok(eval(a)?.powf(eval(b)?)).
EvalArith(o, a, b, p) ==
  LET ra == eval(a, p \o <<1>>)
      rb == eval(b, p \o <<2>>)
  IN  IF ~ra.res.ok THEN Ret(ra.res, ra.calls)
      ELSE IF ~rb.res.ok THEN Ret(rb.res, ra.calls \o rb.calls)
      ELSE Ret(Ok(Arith(o, ra.res.val, rb.res.val)), ra.calls \o rb.calls)

\* Div with the dividend evaluated before the divisor is tested.
EvalDivLeftFirst(a, b, p) ==
  LET ra == eval(a, p \o <<1>>)
      rb == eval(b, p \o <<2>>)
  IN  IF ~ra.res.ok THEN Ret(ra.res, ra.calls)
      ELSE IF ~rb.res.ok THEN Ret(rb.res, ra.calls \o rb.calls)
      ELSE IF FEq(rb.res.val, Zero) THEN Ret(DivisionByZero, ra.calls \o rb.calls)
      ELSE Ret(Ok(FDiv(ra.res.val, rb.res.val)), ra.calls \o rb.calls)

\* Div with the divisor tested by rv <= 0.0 instead of rv == 0.0.
EvalDivNonPositive(a, b, p) ==
  LET rb == eval(b, p \o <<2>>)
      ra == eval(a, p \o <<1>>)
  IN  IF ~rb.res.ok THEN Ret(rb.res, rb.calls)
      ELSE IF FLe(rb.res.val, Zero) THEN Ret(DivisionByZero, rb.calls)
      ELSE IF ~ra.res.ok THEN Ret(ra.res, rb.calls \o ra.calls)
      ELSE Ret(Ok(FDiv(ra.res.val, rb.res.val)), rb.calls \o ra.calls)

\* Div(a, b): let rv = eval(b)?; if rv == 0.0 { Err } else { Ok(eval(a)? / rv) }.
EvalDiv(a, b, p) ==
  LET rb == eval(b, p \o <<2>>)
      ra == eval(a, p \o <<1>>)
  IN  IF ~rb.res.ok THEN Ret(rb.res, rb.calls)
      ELSE IF FEq(rb.res.val, Zero) THEN Ret(DivisionByZero, rb.calls)
      ELSE IF ~ra.res.ok THEN Ret(ra.res, rb.calls \o ra.calls)
      ELSE Ret(Ok(FDiv(ra.res.val, rb.res.val)), rb.calls \o ra.calls)

Apply(o, x) ==
  CASE o = "Sin" -> FSin(x)
    [] o = "Cos" -> FCos(x)
    [] o = "Tan" -> FTan(x)
    [] o = "Exp" -> FExp(x)

\* Sin, Cos, Tan, Exp: Ok(eval(x)?.sin()) and its like.
EvalUnary(o, x, p) ==
  LET rx == eval(x, p \o <<1>>)
  IN  IF ~rx.res.ok THEN Ret(rx.res, rx.calls)
      ELSE Ret(Ok(Apply(o, rx.res.val)), rx.calls)

\* Log without the test b == 1.0.
EvalLogNoBaseOne(value, base, p) ==
  LET rv == eval(value, p \o <<1>>)
      rb == eval(base, p \o <<2>>)
  IN  IF ~rv.res.ok THEN Ret(rv.res, rv.calls)
      ELSE IF ~rb.res.ok THEN Ret(rb.res, rv.calls \o rb.calls)
      ELSE IF FLe(rv.res.val, Zero) \/ FLe(rb.res.val, Zero)
           THEN Ret(InvalidLog(rv.res.val, rb.res.val), rv.calls \o rb.calls)
      ELSE Ret(Ok(FDiv(FLn(rv.res.val), FLn(rb.res.val))), rv.calls \o rb.calls)

\* Log with the value tested before the base is evaluated.
EvalLogCheckValueFirst(value, base, p) ==
  LET rv == eval(value, p \o <<1>>)
      rb == eval(base, p \o <<2>>)
  IN  IF ~rv.res.ok THEN Ret(rv.res, rv.calls)
      ELSE IF FLe(rv.res.val, Zero) THEN Ret(InvalidLog(rv.res.val, Zero), rv.calls)
      ELSE IF ~rb.res.ok THEN Ret(rb.res, rv.calls \o rb.calls)
      ELSE IF FLe(rb.res.val, Zero) \/ FEq(rb.res.val, One)
           THEN Ret(InvalidLog(rv.res.val, rb.res.val), rv.calls \o rb.calls)
      ELSE Ret(Ok(FDiv(FLn(rv.res.val), FLn(rb.res.val))), rv.calls \o rb.calls)

\* Log(value, base): both operands, then the domain check.
EvalLog(value, base, p) ==
  LET rv == eval(value, p \o <<1>>)
      rb == eval(base, p \o <<2>>)
  IN  IF ~rv.res.ok THEN Ret(rv.res, rv.calls)
      ELSE IF ~rb.res.ok THEN Ret(rb.res, rv.calls \o rb.calls)
      ELSE IF FLe(rv.res.val, Zero) \/ FLe(rb.res.val, Zero) \/ FEq(rb.res.val, One)
           THEN Ret(InvalidLog(rv.res.val, rb.res.val), rv.calls \o rb.calls)
      ELSE Ret(Ok(FDiv(FLn(rv.res.val), FLn(rb.res.val))), rv.calls \o rb.calls)

\* Ln without its domain check.
EvalLnUnchecked(x, p) ==
  LET rx == eval(x, p \o <<1>>)
  IN  IF ~rx.res.ok THEN Ret(rx.res, rx.calls)
      ELSE Ret(Ok(FLn(rx.res.val)), rx.calls)

\* Ln(x): let v = eval(x)?; if v <= 0.0 { Err } else { Ok(v.ln()) }.
EvalLn(x, p) ==
  LET rx == eval(x, p \o <<1>>)
  IN  IF ~rx.res.ok THEN Ret(rx.res, rx.calls)
      ELSE IF FLe(rx.res.val, Zero) THEN Ret(InvalidLn(rx.res.val), rx.calls)
      ELSE Ret(Ok(FLn(rx.res.val)), rx.calls)

\* Root with the degree tested by deg <= 0.0 instead of deg == 0.0.
EvalRootNonPositive(value, degree, p) ==
  LET rd == eval(degree, p \o <<2>>)
      rv == eval(value, p \o <<1>>)
  IN  IF ~rd.res.ok THEN Ret(rd.res, rd.calls)
      ELSE IF FLe(rd.res.val, Zero) THEN Ret(RootDegreeZero, rd.calls)
      ELSE IF ~rv.res.ok THEN Ret(rv.res, rd.calls \o rv.calls)
      ELSE Ret(Ok(FPowf(rv.res.val, FDiv(One, rd.res.val))), rd.calls \o rv.calls)

\* Root(value, degree): the degree is evaluated and tested first.
EvalRoot(value, degree, p) ==
  LET rd == eval(degree, p \o <<2>>)
      rv == eval(value, p \o <<1>>)
  IN  IF ~rd.res.ok THEN Ret(rd.res, rd.calls)
      ELSE IF FEq(rd.res.val, Zero) THEN Ret(RootDegreeZero, rd.calls)
      ELSE IF ~rv.res.ok THEN Ret(rv.res, rd.calls \o rv.calls)
      ELSE Ret(Ok(FPowf(rv.res.val, FDiv(One, rd.res.val))), rd.calls \o rv.calls)

eval(e, p) ==
  LET r == CASE e.op = "Num" -> Ret(Ok(e.n), <<>>)
             [] e.op \in ArithOps -> EvalArith(e.op, e.a, e.b, p)
             [] e.op = "Div" -> EvalDiv(e.a, e.b, p)
             [] e.op \in {"Sin", "Cos", "Tan", "Exp"} -> EvalUnary(e.op, e.x, p)
             [] e.op = "Log" -> EvalLog(e.a, e.b, p)
             [] e.op = "Ln" -> EvalLn(e.x, p)
             [] e.op = "Root" -> EvalRoot(e.a, e.b, p)
  IN  Ret(r.res, <<p>> \o r.calls)

\* pub fn eval_expr(expr): eval(expr), called on the root.
eval_expr(e) == eval(e, <<>>)

---------------------------------------------------------------------------
(* The expressions eval_expr is checked on: every tree of depth at most 2  *)
(* over the thirteen variants, with the literals -1 .. MaxLit as leaves.   *)
Lits == {Num(Fin(2 * i)) : i \in (0 - 1) .. MaxLit}
Grow(S) ==
  S \cup {Un(o, x) : o \in UnaryOps, x \in S}
    \cup {Bin(o, a, b) : o \in BinaryOps, a \in S, b \in S}
Level1 == Grow(Lits)
Level2 == Grow(Level1)

---------------------------------------------------------------------------
(* Text.  A string is a sequence of one-character strings.                 *)
Digits == <<"0", "1", "2", "3", "4", "5", "6", "7", "8", "9">>
IsDigit(c) == \E d \in DOMAIN Digits : Digits[d] = c
DigitVal(c) == (CHOOSE d \in DOMAIN Digits : Digits[d] = c) - 1

RECURSIVE DecVal(_)
DecVal(s) ==
  IF s = <<>> THEN 0
  ELSE 10 * DecVal(SubSeq(s, 1, Len(s) - 1)) + DigitVal(s[Len(s)])

RECURSIVE Pow10(_)
Pow10(k) == IF k = 0 THEN 1 ELSE 10 * Pow10(k - 1)

(* s.parse::<f64>() for a text of digits, signs and dots: an optional      *)
(* sign, then digits with at most one dot and at least one digit, read as  *)
(* a decimal number and rounded to the nearest f64.                        *)
ParseF64(s) ==
  LET neg == s # <<>> /\ s[1] = "-"
      body == IF s # <<>> /\ s[1] \in {"+", "-"} THEN Tail(s) ELSE s
      dots == {i \in DOMAIN body : body[i] = "."}
      dot == IF dots = {} THEN Len(body) + 1 ELSE CHOOSE i \in dots : TRUE
      int == SubSeq(body, 1, dot - 1)
      frac == SubSeq(body, dot + 1, Len(body))
      valid == /\ Cardinality(dots) <= 1
               /\ \A i \in DOMAIN body : i \in dots \/ IsDigit(body[i])
               /\ Len(int) + Len(frac) >= 1
      mag == RoundDiv(2 * (DecVal(int) * Pow10(Len(frac)) + DecVal(frac)),
                      Pow10(Len(frac)))
  IN  IF s = <<>> THEN Err("cannot parse float from empty string", <<>>)
      ELSE IF ~valid THEN Err("invalid float literal", <<>>)
      ELSE Ok(Saturate(IF neg THEN 0 - mag ELSE mag))

---------------------------------------------------------------------------
(* The concrete parse tree: a pest Pair is its rule tag, the text it       *)
(* matched and its inner pairs.                                            *)
Pair(rule, str, kids) == [rule |-> rule, str |-> str, kids |-> kids]

WrapperRules == {"input", "expression"}
BinaryRules == {"plus", "minus", "multiply", "divide", "pow", "log", "root"}
UnaryRules == {"sin", "cos", "tan", "exp", "ln"}
\* The rules of the Rule enum that build_expr names no arm for.
OtherRules == {"EOI"}
Rules == WrapperRules \cup {"num"} \cup BinaryRules \cup UnaryRules \cup OtherRules

\* A panic (unreachable!()) is not a value build_expr returns.
Panicked == [ok |-> FALSE, panic |-> TRUE]

\* The inner match of the binary arm with the arms of log and root exchanged.
BinaryVariantLogRootSwapped(rule) ==
  CASE rule = "plus" -> "Add"
    [] rule = "minus" -> "Sub"
    [] rule = "multiply" -> "Mul"
    [] rule = "divide" -> "Div"
    [] rule = "pow" -> "Pow"
    [] rule = "log" -> "Root"
    [] rule = "root" -> "Log"
    [] OTHER -> "unreachable"

\* The inner match of the binary arm.
BinaryVariant(rule) ==
  CASE rule = "plus" -> "Add"
    [] rule = "minus" -> "Sub"
    [] rule = "multiply" -> "Mul"
    [] rule = "divide" -> "Div"
    [] rule = "pow" -> "Pow"
    [] rule = "log" -> "Log"
    [] rule = "root" -> "Root"
    [] OTHER -> "unreachable"

\* The inner match of the unary arm.
UnaryVariant(rule) ==
  CASE rule = "sin" -> "Sin"
    [] rule = "cos" -> "Cos"
    [] rule = "tan" -> "Tan"
    [] rule = "exp" -> "Exp"
    [] rule = "ln" -> "Ln"
    [] OTHER -> "unreachable"

RECURSIVE build_expr(_)

\* Rule::input | Rule::expression: the first inner pair, if any.
BuildWrapper(pair) ==
  IF Len(pair.kids) >= 1 THEN build_expr(pair.kids[1])
  ELSE Err("Empty expression", <<>>)

\* Rule::num.
BuildNum(pair) ==
  LET r == ParseF64(pair.str)
  IN  IF r.ok THEN Ok(Num(r.val))
      ELSE Err("Failed to parse number '{}': {}", <<pair.str, r.msg>>)

\* The binary arm with the built operands exchanged.
BuildBinarySwapped(pair) ==
  IF Len(pair.kids) < 1 THEN Err("Missing left", <<>>)
  ELSE IF Len(pair.kids) < 2 THEN Err("Missing right", <<>>)
  ELSE LET l == build_expr(pair.kids[1])
           r == build_expr(pair.kids[2])
       IN  IF ~l.ok THEN l
           ELSE IF ~r.ok THEN r
           ELSE IF BinaryVariant(pair.rule) = "unreachable" THEN Panicked
           ELSE Ok(Bin(BinaryVariant(pair.rule), r.val, l.val))

\* Rule::plus | minus | multiply | divide | pow | log | root.
BuildBinary(pair) ==
  IF Len(pair.kids) < 1 THEN Err("Missing left", <<>>)
  ELSE IF Len(pair.kids) < 2 THEN Err("Missing right", <<>>)
  ELSE LET l == build_expr(pair.kids[1])
           r == build_expr(pair.kids[2])
       IN  IF ~l.ok THEN l
           ELSE IF ~r.ok THEN r
           ELSE IF BinaryVariant(pair.rule) = "unreachable" THEN Panicked
           ELSE Ok(Bin(BinaryVariant(pair.rule), l.val, r.val))

\* Rule::sin | cos | tan | exp | ln.
BuildUnary(pair) ==
  IF Len(pair.kids) < 1 THEN Err("Missing argument", <<>>)
  ELSE LET v == build_expr(pair.kids[1])
       IN  IF ~v.ok THEN v
           ELSE IF UnaryVariant(pair.rule) = "unreachable" THEN Panicked
           ELSE Ok(Un(UnaryVariant(pair.rule), v.val))

build_expr(pair) ==
  CASE pair.rule \in WrapperRules -> BuildWrapper(pair)
    [] pair.rule = "num" -> BuildNum(pair)
    [] pair.rule \in BinaryRules -> BuildBinary(pair)
    [] pair.rule \in UnaryRules -> BuildUnary(pair)
    [] OTHER -> Err("Unexpected rule: {:?}", <<pair.rule>>)

(* The parse trees build_expr is checked on: every tree of depth at most   *)
(* 2 whose nodes carry any rule tag and up to two inner pairs, over num    *)
(* leaves with the texts "1" .. MaxDigit and the malformed text "".        *)
MaxDigit == 1
NumTexts == {<<Digits[i + 1]>> : i \in 1 .. MaxDigit} \cup {<<>>}
NumPairs == {Pair("num", t, <<>>) : t \in NumTexts}
UpToTwo(S) == {<<>>} \cup {<<x>> : x \in S} \cup {<<x, y>> : x \in S, y \in S}
PairGrow(S) == S \cup {Pair(r, <<>>, ks) : r \in Rules \ {"num"}, ks \in UpToTwo(S)}
Pairs1 == PairGrow(NumPairs)
Pairs2 == PairGrow(Pairs1)

---------------------------------------------------------------------------
(* Grammar::parse(Rule::input, input), after the grammar of the            *)
(* specification, section 4.1 (grammar.pest itself is generated into the   *)
(* Grammar struct): input is one expression spanning the whole string; an  *)
(* expression is a number, a parenthesized binary form or a function call. *)
(* w tells whether the grammar skips blanks between tokens, which the      *)
(* specification leaves to the implementation.                             *)
At(s, i) == IF i \in DOMAIN s THEN s[i] ELSE "end"

RECURSIVE Skip(_, _, _)
Skip(s, i, w) == IF w /\ At(s, i) = " " THEN Skip(s, i + 1, w) ELSE i

RECURSIVE DigitsEnd(_, _)
DigitsEnd(s, i) == IF IsDigit(At(s, i)) THEN DigitsEnd(s, i + 1) ELSE i

Matches(s, i, word) ==
  /\ i + Len(word) - 1 <= Len(s)
  /\ SubSeq(s, i, i + Len(word) - 1) = word

NoParse == [ok |-> FALSE]
Parsed(pair, next) == [ok |-> TRUE, pair |-> pair, next |-> next]

\* number = optional sign, digits, optional "." and digits.
ParseNumber(s, i) ==
  LET j0 == IF At(s, i) \in {"+", "-"} THEN i + 1 ELSE i
      j1 == DigitsEnd(s, j0)
      j2 == IF At(s, j1) = "." /\ DigitsEnd(s, j1 + 1) > j1 + 1
            THEN DigitsEnd(s, j1 + 1) ELSE j1
  IN  IF j1 = j0 THEN NoParse
      ELSE Parsed(Pair("num", SubSeq(s, i, j2 - 1), <<>>), j2)

OperatorRule(c) ==
  CASE c = "+" -> "plus"
    [] c = "-" -> "minus"
    [] c = "*" -> "multiply"
    [] c = "/" -> "divide"
    [] OTHER -> "none"

Functions ==
  { [name |-> <<"s", "i", "n">>, rule |-> "sin", arity |-> 1],
    [name |-> <<"c", "o", "s">>, rule |-> "cos", arity |-> 1],
    [name |-> <<"t", "a", "n">>, rule |-> "tan", arity |-> 1],
    [name |-> <<"e", "x", "p">>, rule |-> "exp", arity |-> 1],
    [name |-> <<"l", "n">>, rule |-> "ln", arity |-> 1],
    [name |-> <<"p", "o", "w">>, rule |-> "pow", arity |-> 2],
    [name |-> <<"r", "o", "o", "t">>, rule |-> "root", arity |-> 2],
    [name |-> <<"l", "o", "g">>, rule |-> "log", arity |-> 2] }

RECURSIVE ParseExpression(_, _, _)

\* binary-form = "(" expression operator expression ")".
ParseBinaryForm(s, i, w) ==
  LET Close(l, o, r, c) ==
        IF At(s, c) # ")" THEN NoParse
        ELSE Parsed(Pair(OperatorRule(At(s, o)), SubSeq(s, i, c), <<l.pair, r.pair>>),
                    c + 1)
      Right(l, o, r) ==
        IF ~r.ok THEN NoParse ELSE Close(l, o, r, Skip(s, r.next, w))
      Operator(l, o) ==
        IF OperatorRule(At(s, o)) = "none" THEN NoParse
        ELSE Right(l, o, ParseExpression(s, Skip(s, o + 1, w), w))
      Left(l) ==
        IF ~l.ok THEN NoParse ELSE Operator(l, Skip(s, l.next, w))
  IN  Left(ParseExpression(s, Skip(s, i + 1, w), w))

\* function-call = name "(" expression ["," expression] ")".
ParseFunctionCall(s, i, w, f) ==
  LET Close(args, c) ==
        IF At(s, c) # ")" THEN NoParse
        ELSE Parsed(Pair(f.rule, SubSeq(s, i, c), args), c + 1)
      Second(a, b) ==
        IF ~b.ok THEN NoParse ELSE Close(<<a.pair, b.pair>>, Skip(s, b.next, w))
      Rest(a, m) ==
        IF f.arity = 1 THEN Close(<<a.pair>>, m)
        ELSE IF At(s, m) # "," THEN NoParse
        ELSE Second(a, ParseExpression(s, Skip(s, m + 1, w), w))
      First(a) ==
        IF ~a.ok THEN NoParse ELSE Rest(a, Skip(s, a.next, w))
      Open(p) ==
        IF At(s, p) # "(" THEN NoParse
        ELSE First(ParseExpression(s, Skip(s, p + 1, w), w))
  IN  Open(Skip(s, i + Len(f.name), w))

ParseExpression(s, i, w) ==
  LET Wrap(r) ==
        IF r.ok
        THEN Parsed(Pair("expression", SubSeq(s, i, r.next - 1), <<r.pair>>), r.next)
        ELSE NoParse
      Call(fs) ==
        IF fs # {} THEN ParseFunctionCall(s, i, w, CHOOSE f \in fs : TRUE)
        ELSE ParseNumber(s, i)
  IN  Wrap(IF At(s, i) = "(" THEN ParseBinaryForm(s, i, w)
           ELSE Call({f \in Functions : Matches(s, i, f.name)}))

\* input = expression, consuming the entire string.
GrammarParse(s, w) ==
  LET Whole(e) ==
        IF e.ok /\ Skip(s, e.next, w) = Len(s) + 1
        THEN Ok(Pair("input", s, <<e.pair, Pair("EOI", <<>>, <<>>)>>))
        ELSE Err("syntax error", <<>>)
  IN  Whole(ParseExpression(s, Skip(s, 1, w), w))

\* pub fn parse_expression(input).
parse_expression(input, w) ==
  LET Build(g) == IF ~g.ok THEN g ELSE build_expr(g.val)
  IN  Build(GrammarParse(input, w))

---------------------------------------------------------------------------
(* parse_and_eval and res.txt.                                             *)

\* str::trim, for texts whose only whitespace is the blank.
RECURSIVE TrimStart(_)
TrimStart(s) == IF s # <<>> /\ Head(s) = " " THEN TrimStart(Tail(s)) ELSE s
RECURSIVE TrimEnd(_)
TrimEnd(s) ==
  IF s # <<>> /\ s[Len(s)] = " " THEN TrimEnd(SubSeq(s, 1, Len(s) - 1)) ELSE s
Trim(s) == TrimEnd(TrimStart(s))

RECURSIVE DigitsOf(_)
DigitsOf(n) ==
  IF n < 10 THEN <<Digits[n + 1]>> ELSE DigitsOf(n \div 10) \o <<Digits[(n % 10) + 1]>>

\* Display of an f64: "NaN", "inf", "-inf", and the shortest decimal of a
\* finite value ("3", "-1", "0.5").
FmtF64(v) ==
  IF v.k = "nan" THEN <<"N", "a", "N">>
  ELSE IF v.k = "inf"
       THEN (IF v.n < 0 THEN <<"-">> ELSE <<>>) \o <<"i", "n", "f">>
  ELSE LET m == IF v.n < 0 THEN 0 - v.n ELSE v.n
       IN  (IF v.n < 0 THEN <<"-">> ELSE <<>>)
             \o DigitsOf(m \div 2)
             \o (IF m % 2 = 1 THEN <<".", "5">> ELSE <<>>)

\* writeln!(file, "({}) = {}", input.trim(), res).
ResultLine(input, res) ==
  <<"(">> \o Trim(input) \o <<")", " ", "=", " ">> \o FmtF64(res) \o <<"\n">>

(* What the file system does to one append: the open fails, or the write   *)
(* fails after cut characters of the line reached the file, or both        *)
(* succeed.                                                                *)
CutMax == 2
IoOk == [open |-> TRUE, write |-> TRUE, cut |-> 0]
IoOutcomes ==
  {IoOk, [open |-> FALSE, write |-> FALSE, cut |-> 0]}
    \cup {[open |-> TRUE, write |-> FALSE, cut |-> c] : c \in 0 .. CutMax}

Min(a, b) == IF a < b THEN a ELSE b

PaeRet(res, txt, fault) == [res |-> res, txt |-> txt, fault |-> fault]

\* The text a failed write leaves behind: the first cut characters of the
\* line, and never the whole line.
AppendPartial(txt, line, cut) ==
  IF Min(cut, Len(line) - 1) = 0 THEN txt
  ELSE Append(txt, SubSeq(line, 1, Min(cut, Len(line) - 1)))

\* parse_and_eval that writes the line before it looks at the evaluation's
\* outcome, so that a failed evaluation leaves a line too.
ParseAndEvalLogsFailures(input, txt, io, w) ==
  LET e == parse_expression(input, w)
      r == eval_expr(e.val).res
  IN  IF ~e.ok THEN PaeRet(e, txt, "none")
      ELSE IF ~r.ok THEN PaeRet(r, Append(txt, ResultLine(input, NaN)), "none")
      ELSE PaeRet(Ok(r.val), Append(txt, ResultLine(input, r.val)), "none")

(* pub fn parse_and_eval(input), with txt the content of res.txt (the      *)
(* sequence of the writes appended to it) and io what the file system      *)
(* does: the result returned, the content of res.txt afterwards, and the   *)
(* I/O fault met (for the properties).                                     *)
parse_and_eval(input, txt, io, w) ==
  LET Log(res) ==
        IF ~io.open THEN PaeRet(Err("Failed to open res.txt: {}", <<>>), txt, "open")
        ELSE IF ~io.write
             THEN PaeRet(Err("Failed to write to res.txt: {}", <<>>),
                         AppendPartial(txt, ResultLine(input, res), io.cut), "write")
        ELSE PaeRet(Ok(res), Append(txt, ResultLine(input, res)), "none")
      Evaluated(r) == IF ~r.ok THEN PaeRet(r, txt, "none") ELSE Log(r.val)
      Built(e) ==
        IF ~e.ok THEN PaeRet(e, txt, "none") ELSE Evaluated(eval_expr(e.val).res)
  IN  Built(parse_expression(input, w))

\* The lines of the batch files.
LineTexts ==
  { <<"(", "1", "+", "2", ")">>,
    <<"(", "1", "/", "0", ")">>,
    <<"l", "n", "(", "0", ")">>,
    <<" ", "2", " ">>,
    <<>>,
    <<"(", "1", "+">>,
    <<"r", "o", "o", "t", "(", "4", ",", "-", "2", ")">>,
    <<"l", "o", "g", "(", "(", "1", ".", "5", "*", "2", ")", ",", "1", ")">> }

MaxLines == 2
RECURSIVE FilesOf(_)
FilesOf(n) ==
  IF n = 0 THEN {<<>>}
  ELSE FilesOf(n - 1) \cup {Append(f, l) : f \in FilesOf(n - 1), l \in LineTexts}
Files == FilesOf(MaxLines)

---------------------------------------------------------------------------
(* State.  pc is where the program stands; expr and out are the argument   *)
(* and the outcome of eval_expr; pair and built are the argument and the   *)
(* result of build_expr; cli is the command line of main, file the lines   *)
(* of the input file, idx the line the loop of main is at, resTxt the      *)
(* content of res.txt, stdout what main printed, wsTolerant whether the    *)
(* grammar skips blanks, fault the I/O fault the last parse_and_eval met.  *)
VARIABLES pc, expr, out, pair, built, cli, file, idx, resTxt, stdout, wsTolerant, fault

vars == <<pc, expr, out, pair, built, cli, file, idx, resTxt, stdout, wsTolerant, fault>>

evalVars == <<expr, out>>
buildVars == <<pair, built>>
mainVars == <<cli, file, idx, resTxt, stdout, wsTolerant, fault>>

NoOut == Ret(Err("", <<>>), <<>>)
NoExpr == Num(Zero)
NoPair == Pair("num", <<>>, <<>>)

EvalIdle == expr = NoExpr /\ out = NoOut
BuildIdle == pair = NoPair /\ built = Err("", <<>>)
MainIdle ==
  /\ cli = "none" /\ file = <<>> /\ idx = 1 /\ resTxt = <<>> /\ stdout = <<>>
  /\ wsTolerant = FALSE /\ fault = "none"

(* A caller of eval_expr.                                                  *)
Init ==
  /\ pc = "start"
  /\ expr \in Level2
  /\ out = NoOut
  /\ BuildIdle /\ MainIdle

\* out = eval_expr(&expr).
EvalExpr ==
  /\ pc = "start"
  /\ out' = eval_expr(expr)
  /\ pc' = "done"
  /\ UNCHANGED <<expr, buildVars, mainVars>>

Next == EvalExpr

Spec == Init /\ [][Next]_vars

(* build_expr on a parse tree.                                             *)
InitBuild ==
  /\ pc = "start"
  /\ pair \in Pairs2
  /\ built = Err("", <<>>)
  /\ EvalIdle /\ MainIdle

\* built = build_expr(pair).
BuildExpr ==
  /\ pc = "start"
  /\ built' = build_expr(pair)
  /\ pc' = "done"
  /\ UNCHANGED <<pair, evalVars, mainVars>>

NextBuild == BuildExpr

SpecBuild == InitBuild /\ [][NextBuild]_vars

(* main.                                                                   *)
InitMain ==
  /\ pc = "start"
  /\ cli \in {"credits", "file", "none"}
  /\ file \in Files
  /\ wsTolerant \in BOOLEAN
  /\ idx = 1 /\ resTxt = <<>> /\ stdout = <<>> /\ fault = "none"
  /\ EvalIdle /\ BuildIdle

\* --credits: the credits are printed and main returns Ok.
ShowCredits ==
  /\ pc = "start" /\ cli = "credits"
  /\ stdout' = <<"Math Expression parser v1.0",
                 "Author: Nazar Sydorchuk <n.sydorchuk@ukma.edu.ua>">>
  /\ pc' = "exit_ok"
  /\ UNCHANGED <<evalVars, buildVars, cli, file, idx, resTxt, wsTolerant, fault>>

\* No --file: expect("No file path provided") panics.
NoFilePath ==
  /\ pc = "start" /\ cli = "none"
  /\ pc' = "panicked"
  /\ UNCHANGED <<evalVars, buildVars, mainVars>>

\* read_to_string(file_path)? succeeds, and the loop starts at the first line.
ReadFile ==
  /\ pc = "start" /\ cli = "file"
  /\ pc' = "loop"
  /\ UNCHANGED <<evalVars, buildVars, mainVars>>

\* read_to_string(file_path)? fails, and main returns the error.
ReadFails ==
  /\ pc = "start" /\ cli = "file"
  /\ pc' = "failed_read"
  /\ UNCHANGED <<evalVars, buildVars, mainVars>>

\* One turn of the loop: parse_and_eval(input)?.
ProcessLine ==
  /\ pc = "loop" /\ idx <= Len(file)
  /\ \E io \in IoOutcomes :
       LET r == parse_and_eval(file[idx], resTxt, io, wsTolerant)
       IN  /\ resTxt' = r.txt
           /\ fault' = r.fault
           /\ pc' = IF r.res.ok THEN "loop" ELSE "failed_line"
           /\ idx' = IF r.res.ok THEN idx + 1 ELSE idx
  /\ UNCHANGED <<evalVars, buildVars, cli, file, stdout, wsTolerant>>

\* After the last line: the success messages, and main returns Ok.
Finish ==
  /\ pc = "loop" /\ idx > Len(file)
  /\ stdout' = <<"Successfully evaluated expressions.",
                 "Results have been written to res.txt">>
  /\ pc' = "exit_ok"
  /\ UNCHANGED <<evalVars, buildVars, cli, file, idx, resTxt, wsTolerant, fault>>

NextMain == ShowCredits \/ NoFilePath \/ ReadFile \/ ReadFails \/ ProcessLine \/ Finish

SpecMain == InitMain /\ [][NextMain]_vars

---------------------------------------------------------------------------
(* Properties of eval_expr, checked on every expression of Level2.         *)

\* The outcome of a subexpression evaluated on its own.
Outcome(e) == eval_expr(e).res

\* Paths of the calls made inside the i-th operand of the root.
InOperand(i) == {j \in DOMAIN out.calls : out.calls[j] # <<>> /\ Head(out.calls[j]) = i}
\* Operand i of the root is entered, and every call inside it is made
\* before any call inside operand k.
Precedes(i, k) ==
  /\ InOperand(i) # {}
  /\ \A x \in InOperand(i) : \A y \in InOperand(k) : x < y

RECURSIVE Nodes(_)
Nodes(e) == {e} \cup UNION {Nodes(Kids(e)[i]) : i \in DOMAIN Kids(e)}

\* Node n fails its own domain check: the operands the check reads
\* evaluate, and to values the check rejects.
FailsOwnCheck(n) ==
  CASE n.op = "Div" ->
         LET r == Outcome(n.b) IN r.ok /\ r.val.k # "nan" /\ r.val = Zero
    [] n.op = "Root" ->
         LET d == Outcome(n.b) IN d.ok /\ d.val.k # "nan" /\ d.val = Zero
    [] n.op = "Ln" -> LET x == Outcome(n.x) IN x.ok /\ FLe(x.val, Zero)
    [] n.op = "Log" ->
         LET v == Outcome(n.a)
             b == Outcome(n.b)
         IN  v.ok /\ b.ok /\ (FLe(v.val, Zero) \/ FLe(b.val, Zero) \/ b.val = One)
    [] OTHER -> FALSE

\* C1, as stated: for Div(l, r) with r evaluating to rv, eval_expr returns
\* the "Division by zero" error if and only if rv = 0, and lv / rv when
\* rv # 0 and l evaluates to lv.
C1_DivisionByZeroIffDivisorZero ==
  (pc = "done" /\ expr.op = "Div" /\ Outcome(expr.b).ok) =>
    LET l == Outcome(expr.a)
        rv == Outcome(expr.b).val
    IN  /\ (out.res = Err("Division by zero", <<>>)) <=> (rv = Zero)
        /\ (rv # Zero /\ l.ok) => out.res = Ok(FDiv(l.val, rv))

\* C1, amended: for Div(l, r) with r evaluating to rv: if rv = 0 the
\* "Division by zero" error is returned; if rv # 0 the node adds no
\* failure of its own: l's error is returned unchanged when l fails (it
\* may itself be a "Division by zero" raised inside l), lv / rv otherwise.
\* So the error is returned iff rv = 0 or l itself returns that error.
C1_DivisionByZeroOwnOrPropagated ==
  (pc = "done" /\ expr.op = "Div" /\ Outcome(expr.b).ok) =>
    LET l == Outcome(expr.a)
        rv == Outcome(expr.b).val
    IN  /\ rv = Zero => out.res = Err("Division by zero", <<>>)
        /\ rv # Zero => out.res = IF l.ok THEN Ok(FDiv(l.val, rv)) ELSE l
        /\ (out.res = Err("Division by zero", <<>>))
             <=> (rv = Zero \/ l = Err("Division by zero", <<>>))

\* A division whose divisor evaluates to 0 has returned the error.
C1_Witness ==
  /\ pc = "done" /\ expr.op = "Div"
  /\ Outcome(expr.b) = Ok(Zero)
  /\ Outcome(expr.a).ok
  /\ out.res = DivisionByZero

\* C2: with its operand evaluating to x, Ln fails iff x <= 0 and otherwise
\* returns ln(x); with its operands evaluating to v and b, Log fails iff
\* v <= 0 or b <= 0 or b = 1, the failure reporting v and b, and otherwise
\* returns ln(v) / ln(b).
C2_LogarithmDomainCheck ==
  /\ (pc = "done" /\ expr.op = "Ln" /\ Outcome(expr.x).ok) =>
       LET x == Outcome(expr.x).val
       IN  /\ ~out.res.ok <=> FLe(x, Zero)
           /\ out.res.ok => out.res.val = FLn(x)
  /\ (pc = "done" /\ expr.op = "Log" /\ Outcome(expr.a).ok /\ Outcome(expr.b).ok) =>
       LET v == Outcome(expr.a).val
           b == Outcome(expr.b).val
       IN  /\ ~out.res.ok <=> (FLe(v, Zero) \/ FLe(b, Zero) \/ b = One)
           /\ ~out.res.ok => out.res.args = <<v, b>>
           /\ out.res.ok => out.res.val = FDiv(FLn(v), FLn(b))

\* A logarithm to base 1 of a positive value has failed, reporting both.
C2_Witness ==
  /\ pc = "done" /\ expr.op = "Log"
  /\ Outcome(expr.a).ok /\ Outcome(expr.b) = Ok(One)
  /\ ~FLe(Outcome(expr.a).val, Zero)
  /\ ~out.res.ok
  /\ out.res.args = <<Outcome(expr.a).val, One>>

\* C3, as stated: for Root(v, d) with d evaluating to deg, eval_expr
\* returns the "Root degree cannot be zero" error if and only if deg = 0,
\* and v^(1/deg) when deg # 0 and v evaluates.
C3_RootDegreeZeroIffDegreeZero ==
  (pc = "done" /\ expr.op = "Root" /\ Outcome(expr.b).ok) =>
    LET v == Outcome(expr.a)
        deg == Outcome(expr.b).val
    IN  /\ (out.res = Err("Root degree cannot be zero", <<>>)) <=> (deg = Zero)
        /\ (deg # Zero /\ v.ok) => out.res = Ok(FPowf(v.val, FDiv(One, deg)))

\* C3, amended: for Root(v, d) with d evaluating to deg: if deg = 0 the
\* "Root degree cannot be zero" error is returned; if deg # 0 (negative
\* degrees and negative values included) Root adds no failure of its own:
\* v's error is returned unchanged when v fails (it may itself be a "Root
\* degree cannot be zero" raised inside v), v^(1/deg) otherwise.
C3_RootDegreeZeroOwnOrPropagated ==
  (pc = "done" /\ expr.op = "Root" /\ Outcome(expr.b).ok) =>
    LET v == Outcome(expr.a)
        deg == Outcome(expr.b).val
    IN  /\ deg = Zero => out.res = Err("Root degree cannot be zero", <<>>)
        /\ deg # Zero =>
             out.res = IF v.ok THEN Ok(FPowf(v.val, FDiv(One, deg))) ELSE v
        /\ (out.res = Err("Root degree cannot be zero", <<>>))
             <=> (deg = Zero \/ v = Err("Root degree cannot be zero", <<>>))

\* A root of a negative value with a negative degree has returned a value.
C3_Witness ==
  /\ pc = "done" /\ expr.op = "Root"
  /\ Outcome(expr.a).ok /\ Outcome(expr.b).ok
  /\ FLe(Outcome(expr.a).val, Fin(-2)) /\ FLe(Outcome(expr.b).val, Fin(-2))
  /\ out.res = Ok(FPowf(Outcome(expr.a).val, FDiv(One, Outcome(expr.b).val)))

\* C4: eval_expr(e) fails iff some node of e fails its own domain check;
\* Num, Add, Sub, Mul, Sin, Cos, Tan, Exp and Pow never fail on their own,
\* and the failure of a subexpression is never replaced by a value.
C4_FailsIffSomeNodeFailsItsCheck ==
  pc = "done" =>
    /\ ~out.res.ok <=> \E n \in Nodes(expr) : FailsOwnCheck(n)
    /\ \A n \in Nodes(expr) : ~Outcome(n).ok => ~out.res.ok
    /\ (/\ expr.op \in {"Num", "Add", "Sub", "Mul", "Sin", "Cos", "Tan", "Exp", "Pow"}
        /\ \A i \in DOMAIN Kids(expr) : Outcome(Kids(expr)[i]).ok)
         => out.res.ok

\* An expression has failed because of a node below its root.
C4_Witness ==
  /\ pc = "done" /\ ~out.res.ok
  /\ ~FailsOwnCheck(expr)
  /\ \E n \in Nodes(expr) : n # expr /\ FailsOwnCheck(n)

\* The error a node returns when it fails its own check, as the amended C5
\* has it.
OwnError(n) ==
  CASE n.op = "Div" -> Err("Division by zero", <<>>)
    [] n.op = "Root" -> Err("Root degree cannot be zero", <<>>)
    [] n.op = "Ln" -> Err("Invalid argument for ln: {}", <<Outcome(n.x).val>>)
    [] n.op = "Log" ->
         Err("Invalid arguments for log(value, base): value={} base={}",
             <<Outcome(n.a).val, Outcome(n.b).val>>)

\* C5, as stated: every numeric domain error eval_expr returns carries the
\* value(s) of the offending operand(s).
C5_EveryDomainErrorCarriesOperands ==
  (pc = "done" /\ ~out.res.ok) =>
    \E n \in Nodes(expr) :
      /\ FailsOwnCheck(n)
      /\ out.res.msg = OwnError(n).msg
      /\ out.res.args =
           IF n.op \in {"Div", "Root"} THEN <<Outcome(n.b).val>> ELSE OwnError(n).args

\* C5, amended: the ln error carries the value of its argument and the log
\* error carries the values of both operands; the division-by-zero and
\* zero-root-degree errors are fixed messages that carry no operand value.
C5_LnAndLogErrorsCarryOperands ==
  (pc = "done" /\ ~out.res.ok) =>
    \E n \in Nodes(expr) : FailsOwnCheck(n) /\ out.res = OwnError(n)

\* An ln of a non-positive value has failed, and the error holds the value.
C5_Witness ==
  /\ pc = "done" /\ expr.op = "Ln"
  /\ Outcome(expr.x).ok
  /\ out.res = Err("Invalid argument for ln: {}", <<Outcome(expr.x).val>>)

\* C6: Div and Root evaluate and test their second operand before the
\* first is evaluated at all: if the second operand fails, its failure is
\* returned; if it evaluates to 0, the zero error is returned; in both
\* cases the first operand is never evaluated; otherwise the first operand
\* is evaluated after the second.
C6_SecondOperandCheckedFirst ==
  (pc = "done" /\ expr.op \in {"Div", "Root"}) =>
    LET r == Outcome(expr.b)
    IN  /\ ~r.ok => out.res = r /\ InOperand(1) = {}
        /\ (r.ok /\ r.val = Zero) =>
             /\ out.res = IF expr.op = "Div" THEN Err("Division by zero", <<>>)
                          ELSE Err("Root degree cannot be zero", <<>>)
             /\ InOperand(1) = {}
        /\ (r.ok /\ r.val # Zero) => Precedes(2, 1) /\ InOperand(1) # {}

\* Div(l, r) or Root(l, r) where l would fail and r evaluates to 0: the
\* zero error is returned, not l's.
C6_Witness ==
  /\ pc = "done" /\ expr.op \in {"Div", "Root"}
  /\ ~Outcome(expr.a).ok
  /\ Outcome(expr.b) = Ok(Zero)
  /\ out.res # Outcome(expr.a)
  /\ out.res \in {DivisionByZero, RootDegreeZero}

\* C7: Log evaluates the value operand, then the base operand, and checks
\* the domain only after both succeeded: a failing operand's error is
\* returned in preference to the "invalid log arguments" error, and the
\* value operand's when both fail.
C7_LogEvaluatesBothThenChecks ==
  (pc = "done" /\ expr.op = "Log") =>
    LET v == Outcome(expr.a)
        b == Outcome(expr.b)
    IN  /\ ~v.ok => out.res = v /\ InOperand(2) = {}
        /\ (v.ok /\ ~b.ok) => out.res = b
        /\ v.ok => Precedes(1, 2) /\ InOperand(2) # {}
        /\ (v.ok /\ b.ok) =>
             out.res = IF FLe(v.val, Zero) \/ FLe(b.val, Zero) \/ b.val = One
                       THEN Err("Invalid arguments for log(value, base): value={} base={}",
                                <<v.val, b.val>>)
                       ELSE Ok(FDiv(FLn(v.val), FLn(b.val)))

\* Log(value, base) where value evaluates to a value <= 0 and base fails:
\* the base's error is returned.
C7_Witness ==
  /\ pc = "done" /\ expr.op = "Log"
  /\ Outcome(expr.a).ok /\ FLe(Outcome(expr.a).val, Zero)
  /\ ~Outcome(expr.b).ok
  /\ out.res = Outcome(expr.b)

\* C10: Add, Sub, Mul and Pow evaluate the left operand completely before
\* the right one is started, and return a failure of the left operand
\* without evaluating the right one.
C10_LeftToRight ==
  (pc = "done" /\ expr.op \in {"Add", "Sub", "Mul", "Pow"}) =>
    LET l == Outcome(expr.a)
        r == Outcome(expr.b)
    IN  /\ ~l.ok => out.res = l /\ InOperand(2) = {}
        /\ l.ok => Precedes(1, 2) /\ InOperand(2) # {}
        /\ (l.ok /\ ~r.ok) => out.res = r

\* Both operands would fail, with different errors: the left one's is
\* returned.
C10_Witness ==
  /\ pc = "done" /\ expr.op \in {"Add", "Sub", "Mul", "Pow"}
  /\ ~Outcome(expr.a).ok /\ ~Outcome(expr.b).ok
  /\ Outcome(expr.a) # Outcome(expr.b)
  /\ out.res = Outcome(expr.a)

---------------------------------------------------------------------------
(* Properties of build_expr, checked on every parse tree of Pairs2.        *)

\* The Expr variant the claim gives for a rule tag.
VariantOfTag(rule) ==
  CASE rule = "plus" -> "Add"
    [] rule = "minus" -> "Sub"
    [] rule = "multiply" -> "Mul"
    [] rule = "divide" -> "Div"
    [] rule = "pow" -> "Pow"
    [] rule = "log" -> "Log"
    [] rule = "root" -> "Root"
    [] rule = "sin" -> "Sin"
    [] rule = "cos" -> "Cos"
    [] rule = "tan" -> "Tan"
    [] rule = "exp" -> "Exp"
    [] rule = "ln" -> "Ln"

\* C9: build_expr maps each rule tag to its one Expr variant and keeps the
\* child order (first child to the left or first field, second child to
\* the right or second field; the single child of a unary rule to its
\* operand); wrappers unwrap to their child; a binary rule with fewer than
\* two children, a unary rule with no child, an empty wrapper and any
\* other rule tag yield an error value, never a panic nor a defaulted node.
C9_BuildExprMapsTagsInOrder ==
  pc = "done" =>
    LET k == pair.kids
        n == Len(pair.kids)
    IN  /\ built # Panicked
        /\ (pair.rule \in {"plus", "minus", "multiply", "divide", "pow", "log", "root"}
              /\ n >= 2 /\ build_expr(k[1]).ok /\ build_expr(k[2]).ok)
             => built = Ok([op |-> VariantOfTag(pair.rule),
                            a |-> build_expr(k[1]).val,
                            b |-> build_expr(k[2]).val])
        /\ (pair.rule \in {"sin", "cos", "tan", "exp", "ln"}
              /\ n >= 1 /\ build_expr(k[1]).ok)
             => built = Ok([op |-> VariantOfTag(pair.rule), x |-> build_expr(k[1]).val])
        /\ (pair.rule \in {"input", "expression"} /\ n >= 1)
             => built = build_expr(k[1])
        /\ (\/ pair.rule \in {"plus", "minus", "multiply", "divide", "pow", "log", "root"}
                 /\ n < 2
            \/ pair.rule \in {"sin", "cos", "tan", "exp", "ln"} /\ n = 0
            \/ pair.rule \in {"input", "expression"} /\ n = 0
            \/ pair.rule \notin {"input", "expression", "num", "plus", "minus",
                                "multiply", "divide", "pow", "log", "root",
                                "sin", "cos", "tan", "exp", "ln"})
             => ~built.ok /\ "msg" \in DOMAIN built

\* A log rule over two children that build to different expressions has
\* been built into Log(value = first, base = second).
C9_Witness ==
  /\ pc = "done" /\ pair.rule = "log" /\ Len(pair.kids) = 2
  /\ build_expr(pair.kids[1]).ok /\ build_expr(pair.kids[2]).ok
  /\ build_expr(pair.kids[1]) # build_expr(pair.kids[2])
  /\ built.ok /\ built.val.op = "Log"
  /\ built.val.a = build_expr(pair.kids[1]).val

---------------------------------------------------------------------------
(* Properties of parse_and_eval and of the loop of main.                   *)

\* Parsing and evaluation of a line both succeed.
Succeeds(line) ==
  LET e == parse_expression(line, wsTolerant)
  IN  e.ok /\ eval_expr(e.val).res.ok

\* The entry "(<trimmed input>) = <result>" of a line that succeeds.
EntryOf(line) ==
  <<"(">> \o Trim(line) \o <<")", " ", "=", " ">>
    \o FmtF64(eval_expr(parse_expression(line, wsTolerant).val).res.val)
    \o <<"\n">>

InLoop == pc \in {"loop", "failed_line"} \/ (pc = "exit_ok" /\ cli = "file")

SuccessPrinted ==
  \E i \in DOMAIN stdout : stdout[i] = "Successfully evaluated expressions."

\* C8, as stated: res.txt gains exactly one line "(<trimmed input>) =
\* <result>" for a line whose parsing and evaluation both succeed and is
\* untouched when either fails; main takes the lines in file order and
\* stops at the first line that fails, res.txt then holding one entry for
\* each line before it, in order, and none for it or any later line; the
\* success message is printed only if every line succeeded.
C8_LogHoldsTheLinesBeforeTheFirstFailure ==
  InLoop =>
    /\ idx \in 1 .. Len(file) + 1
    /\ \A i \in 1 .. idx - 1 : Succeeds(file[i])
    /\ resTxt = [i \in 1 .. idx - 1 |-> EntryOf(file[i])]
    /\ (idx <= Len(file) /\ Succeeds(file[idx])) => pc = "loop"
    /\ pc = "failed_line" => idx <= Len(file) /\ ~Succeeds(file[idx])
    /\ SuccessPrinted <=> pc = "exit_ok"
    /\ pc = "exit_ok" => idx = Len(file) + 1

\* C8, amended: as stated, provided res.txt can be opened and written.  If
\* opening or writing res.txt fails for a line that parsed and evaluated,
\* parse_and_eval returns an error all the same and main stops at that
\* line too; res.txt then holds the entries of the lines before it and,
\* after a failed write, possibly the beginning of the failing line's
\* entry.
C8_LogHoldsTheLinesBeforeTheFirstFailureOrFault ==
  InLoop =>
    /\ idx \in 1 .. Len(file) + 1
    /\ \A i \in 1 .. idx - 1 : Succeeds(file[i])
    /\ Len(resTxt) >= idx - 1
    /\ SubSeq(resTxt, 1, idx - 1) = [i \in 1 .. idx - 1 |-> EntryOf(file[i])]
    /\ pc # "failed_line" => fault = "none"
    /\ fault \in {"none", "open"} => Len(resTxt) = idx - 1
    /\ (pc = "failed_line" /\ fault = "none") =>
         idx <= Len(file) /\ ~Succeeds(file[idx])
    /\ (pc = "failed_line" /\ fault # "none") =>
         idx <= Len(file) /\ Succeeds(file[idx])
    /\ fault = "write" =>
         \/ Len(resTxt) = idx - 1
         \/ /\ Len(resTxt) = idx
            /\ Len(resTxt[idx]) < Len(EntryOf(file[idx]))
            /\ resTxt[idx] = SubSeq(EntryOf(file[idx]), 1, Len(resTxt[idx]))
    /\ SuccessPrinted <=> pc = "exit_ok"
    /\ pc = "exit_ok" => idx = Len(file) + 1

\* main has stopped at the second line, which fails to evaluate, with the
\* entry of the first line, and only that, in res.txt.
C8_Witness ==
  /\ pc = "failed_line" /\ fault = "none" /\ idx = 2
  /\ parse_expression(file[2], wsTolerant).ok
  /\ resTxt = <<EntryOf(file[1])>>
  /\ ~SuccessPrinted

====
